---- MODULE Spec2Model ----
(***************************************************************************)
(* A model of the regex engine of cre.c (kre.c is the same engine under    *)
(* another identifier prefix): the NFA pattern, the streaming simulator    *)
(* cre_sim and the multi-path iterator cre_iter.                           *)
(*                                                                         *)
(* The source does not compile as written; three identifiers are read as   *)
(* the only object in scope they can mean: `iter` in cre_sim_init (l.278)  *)
(* is `sim`, `pat` in cre_sim_reset (l.291) is `sim->pat`, and `s->nfa_len`*)
(* in cre_iter_feedc (l.451) is `s->pat->nfa_len`.                         *)
(***************************************************************************)
EXTENDS Integers, Sequences, FiniteSets, TLC

VARIABLES
    char_signed,  \* whether the build's plain `char` is signed
    pat,          \* the cre_pat under test
    sim,          \* a stand-alone cre_sim on pat
    scall,        \* the last cre_sim_* call: its arguments, result, pre-state
    iter,         \* a cre_iter on pat
    stream,       \* the bytes fed to iter since its last init/reset
    matches,      \* the completed matches a caller of iter can retrieve
    icall,        \* the last cre_iter_* call: its arguments and result
    sim2,         \* a second stand-alone cre_sim on the same pat
    scall2,       \* the last cre_sim_* call on sim2
    pcall         \* the last cre_pat_init call: its source and what it gave

vars == <<char_signed, pat, sim, scall, iter, stream, matches, icall,
          sim2, scall2, pcall>>

----------------------------------------------------------------------------
(* Bounds of the model *)

\* longest byte sequence fed to one simulator or iterator
MaxLen == 3

\* longest regex source handed to cre_pat_init
MaxSrc == 2

----------------------------------------------------------------------------
(* Patterns: struct cre_node, cre_pat *)

\* enum cre_kind
cre_EPS == "EPS"
cre_SET == "SET"

\* edge markers of struct cre_node: no edge, and the open edge that accepts
NoEdge == -1
Accept == -2

\* number of entries of a node's `set` array
SetLen == 256

\* the byte values the model feeds: 'a', 'b', 'c' and one value above 127
Bytes == {97, 98, 99, 200}

\* the byte sets the enumerated one-node patterns carry
ByteSets == {{97}, {97, 98}, {200}}

Node(k, u, v, set) == [kind |-> k, u |-> u, v |-> v, set |-> set]
Eps(u, v) == Node(cre_EPS, u, v, {})
Set(set, u, v) == Node(cre_SET, u, v, set)

\* a cre_pat: nodes are indexed 0..nfa_len-1 as in the C array
Pat(nodes, start) ==
    [nfa_len |-> Len(nodes),
     nfa |-> [i \in 0..(Len(nodes) - 1) |-> nodes[i + 1]],
     nfa_start |-> start]

\* every pattern of one node: both kinds, every edge pair, every start
OneNodePats ==
    {Pat(<<n>>, s) :
        n \in {Eps(u, v) : u \in {NoEdge, Accept, 0}, v \in {NoEdge, Accept, 0}}
              \cup {Set(b, w[1], w[2]) :
                      b \in ByteSets,
                      w \in {NoEdge, Accept, 0} \X {NoEdge, Accept, 0}},
        s \in {NoEdge, Accept, 0}}

\* the NFA a Thompson construction gives for some regular expressions
PatEmpty == Pat(<<>>, Accept)                                    \* ""
PatAB == Pat(<<Set({97}, 1, NoEdge), Set({98}, Accept, NoEdge)>>, 0)   \* "ab"
PatABC ==                                                        \* "abc"
    Pat(<<Set({97}, 1, NoEdge), Set({98}, 2, NoEdge),
          Set({99}, Accept, NoEdge)>>, 0)
PatAlt ==                                                        \* "a|b"
    Pat(<<Eps(1, 2), Set({97}, Accept, NoEdge),
          Set({98}, Accept, NoEdge)>>, 0)
PatStar == Pat(<<Eps(1, Accept), Set({97}, 0, NoEdge)>>, 0)      \* "a*"
PatPlus == Pat(<<Set({97}, 1, NoEdge), Eps(0, Accept)>>, 0)      \* "a+"
PatOptB ==                                                       \* "a?b"
    Pat(<<Eps(1, 2), Set({97}, 2, NoEdge), Set({98}, Accept, NoEdge)>>, 0)
PatClassPlus ==                                                  \* "[ab]+c"
    Pat(<<Set({97, 98}, 1, NoEdge), Eps(0, 2),
          Set({99}, Accept, NoEdge)>>, 0)
PatHigh == Pat(<<Set({200}, 1, NoEdge), Set({97}, Accept, NoEdge)>>, 0) \* "\xC8a"
PatNested ==                                                     \* "(a*)*"
    Pat(<<Eps(1, Accept), Eps(2, 0), Set({97}, 1, NoEdge)>>, 0)
PatBNested ==                                                    \* "b(a*)*"
    Pat(<<Set({98}, 1, NoEdge), Eps(2, Accept), Eps(3, 1),
          Set({97}, 2, NoEdge)>>, 0)
PatTwoEdge ==                                   \* a SET node using both edges
    Pat(<<Set({97}, 1, Accept), Set({98}, 0, 1)>>, 0)

PatAZPlus == Pat(<<Set(97..122, 1, NoEdge), Eps(0, Accept)>>, 0)  \* "[a-z]+"

NamedPats ==
    {PatEmpty, PatAB, PatABC, PatAlt, PatStar, PatPlus, PatOptB,
     PatClassPlus, PatHigh, PatNested, PatBNested, PatTwoEdge, PatAZPlus}

Patterns == OneNodePats \cup NamedPats

NodeIdx(p) == 0..(p.nfa_len - 1)

----------------------------------------------------------------------------
(* Compiling: cre_pat_init, cre_parse_ *)

\* the characters of the regex sources tried
SrcChars == {"(", ")", "a"}

Sources == UNION {[1..n -> SrcChars] : n \in 0..MaxSrc}

\* the 0-based offset of the first parenthesis of src that has no partner:
\* a ")" with no group open, else the first "(" left open; -1 if none.
\* `open` holds the offsets of the groups open before position k.
RECURSIVE FaultScan(_, _, _)
FaultScan(src, k, open) ==
    IF k > Len(src) THEN (IF open = <<>> THEN -1 ELSE Head(open))
    ELSE IF src[k] = "(" THEN FaultScan(src, k + 1, Append(open, k - 1))
    ELSE IF src[k] = ")"
    THEN IF open = <<>> THEN k - 1
         ELSE FaultScan(src, k + 1, SubSeq(open, 1, Len(open) - 1))
    ELSE FaultScan(src, k + 1, open)

FaultOffset(src) == FaultScan(src, 1, <<>>)

\* the literal nodes the parser has appended on reaching offset `upto`
Literals(src, upto) == Cardinality({k \in 1..upto : src[k] = "a"})

\* cre_parse_ is declared and called but has no body in the source. What it
\* leaves in the pattern is taken from the description of the compiler: for
\* a well-formed source one node per literal and the start of the outermost
\* fragment; for a malformed one the nodes built up to the fault, and, the
\* return type being int, some int.
cre_parse_(src) ==
    IF FaultOffset(src) < 0
    THEN {[nfa_len |-> Literals(src, Len(src)),
           ret |-> IF Literals(src, Len(src)) = 0 THEN Accept ELSE 0]}
    ELSE {[nfa_len |-> Literals(src, FaultOffset(src)), ret |-> r] :
            r \in {NoEdge, Accept, 0}}

\* the char* cre_pat_init returns when there is no error
NULL == "NULL"

\* cre_pat_init: copy the source, start with no nodes, store what
\* cre_parse_ returns as the start state, return NULL
cre_pat_init(src, parsed) ==
    [src |-> src, nfa_len |-> parsed.nfa_len, nfa_start |-> parsed.ret,
     err |-> NULL]

----------------------------------------------------------------------------
(* The simulator: cre_sim *)

\* the two state arrays a cre_sim_init allocates
BufA == 1
BufB == 2

AllFalse(p) == [i \in NodeIdx(p) |-> FALSE]

\* the `char` a byte value becomes when passed as the parameter `char c`
ToChar(signed, b) == IF signed /\ b >= 128 THEN b - 256 ELSE b

\* n->set[c]: inside the array the stored flag; outside it whatever lies there
SetLookup(n, c, garbage) ==
    IF c >= 0 /\ c < SetLen THEN c \in n.set ELSE garbage

\* a reset that marks the start state and clears nothing
cre_sim_reset_clears_nothing(p, s) ==
    IF p.nfa_start \in NodeIdx(p)
    THEN [s EXCEPT !.mem[s.in][p.nfa_start] = TRUE, !.st = "ok"]
    ELSE [s EXCEPT !.st = "ok", !.oob = TRUE]

\* a reset that clears both arrays and marks nothing
cre_sim_reset_marks_nothing(p, s) ==
    [s EXCEPT !.mem = [b \in {BufA, BufB} |-> AllFalse(p)], !.st = "ok"]

\* cre_sim_reset: clear both arrays, then mark the start state
cre_sim_reset(p, s) ==
    LET cleared == [b \in {BufA, BufB} |-> AllFalse(p)]
    IN  IF p.nfa_start \in NodeIdx(p)
        THEN [s EXCEPT !.mem = [cleared EXCEPT ![s.in][p.nfa_start] = TRUE],
                       !.st = "ok"]
        ELSE \* in[nfa_start] lies outside the array
             [s EXCEPT !.mem = cleared, !.st = "ok", !.oob = TRUE]

\* cre_sim_init: allocate the two arrays, then reset
cre_sim_init(p) ==
    cre_sim_reset(p, [in |-> BufA, lastin |-> BufB,
                      mem |-> [b \in {BufA, BufB} |-> AllFalse(p)],
                      st |-> "ok", oob |-> FALSE])

\* cre_sim_add_: the recursive closure. `arr` is sim->in; `stack` holds the
\* EPS nodes of the calls in progress: the recursion reads nothing it
\* writes, so entering a node that is on the stack repeats forever.
RECURSIVE cre_sim_add_(_, _, _, _)
cre_sim_add_(p, arr, i, stack) ==
    IF i = NoEdge THEN [in |-> arr, res |-> FALSE, st |-> "ok"]
    ELSE IF i = Accept THEN [in |-> arr, res |-> TRUE, st |-> "ok"]
    ELSE IF ~(i >= 0 /\ i < p.nfa_len)
    THEN [in |-> arr, res |-> FALSE, st |-> "abort"]
    ELSE IF p.nfa[i].kind = cre_EPS
    THEN IF i \in stack
         THEN [in |-> arr, res |-> FALSE, st |-> "overflow"]
         ELSE LET r1 == cre_sim_add_(p, arr, p.nfa[i].u, stack \cup {i})
              IN  IF r1.st # "ok" THEN r1
                  ELSE LET r2 == cre_sim_add_(p, r1.in, p.nfa[i].v,
                                              stack \cup {i})
                       IN  [r2 EXCEPT !.res = r1.res \/ r2.res]
    ELSE [in |-> [arr EXCEPT ![i] = TRUE], res |-> FALSE, st |-> "ok"]

\* the loop of cre_sim_feedc over the nodes that were active (lastin)
RECURSIVE feedc_loop(_, _, _, _, _, _)
feedc_loop(p, last, c, garbage, i, acc) ==
    IF i >= p.nfa_len \/ acc.st # "ok" THEN acc
    ELSE LET n == p.nfa[i]
             valid == IF n.kind = cre_SET
                      THEN SetLookup(n, c, garbage[i]) ELSE FALSE
         IN  IF last[i] /\ valid
             THEN LET r1 == cre_sim_add_(p, acc.in, n.u, {})
                  IN  IF r1.st # "ok" THEN r1
                      ELSE LET r2 == cre_sim_add_(p, r1.in, n.v, {})
                           IN  feedc_loop(p, last, c, garbage, i + 1,
                                   [r2 EXCEPT !.res = acc.res \/ r1.res \/ r2.res])
             ELSE feedc_loop(p, last, c, garbage, i + 1, acc)

\* a feed that swaps the arrays and does not clear the new `in`
cre_sim_feedc_keeps_stale(p, s, c, garbage) ==
    LET r == feedc_loop(p, s.mem[s.in], c, garbage, 0,
                        [in |-> s.mem[s.lastin], res |-> FALSE, st |-> "ok"])
    IN  [sim |-> [s EXCEPT !.in = s.lastin, !.lastin = s.in,
                           !.mem = [s.mem EXCEPT ![s.lastin] = r.in],
                           !.st = r.st],
         res |-> r.res]

\* cre_sim_feedc: swap the arrays, clear the new `in`, step every active
\* node. Gives the simulator after the call and the value returned.
cre_sim_feedc(p, s, c, garbage) ==
    LET r == feedc_loop(p, s.mem[s.in], c, garbage, 0,
                        [in |-> AllFalse(p), res |-> FALSE, st |-> "ok"])
    IN  [sim |-> [s EXCEPT !.in = s.lastin, !.lastin = s.in,
                           !.mem = [s.mem EXCEPT ![s.lastin] = r.in],
                           !.st = r.st],
         res |-> r.res]

\* a call cre_sim_feedc(&ss[k], c) that steps every simulator of ss
cre_sim_feedc_steps_all(p, ss, k, c, garbage) ==
    [sims |-> [j \in DOMAIN ss |-> cre_sim_feedc(p, ss[j], c, garbage).sim],
     res |-> cre_sim_feedc(p, ss[k], c, garbage).res]

\* a call cre_sim_feedc(&ss[k], c) where ss are the simulators that exist:
\* it reads and writes through its own `sim` pointer only
cre_sim_feedc_at(p, ss, k, c, garbage) ==
    LET r == cre_sim_feedc(p, ss[k], c, garbage)
    IN  [sims |-> [ss EXCEPT ![k] = r.sim], res |-> r.res]

\* the active set: the indices marked in sim->in
Active(s) == {i \in DOMAIN s.mem[s.in] : s.mem[s.in][i]}

\* the values n->set[c] can yield for each node when `c` is fed: one fixed
\* answer when c indexes inside the arrays, any flags when it does not
GarbageChoices(p, c) ==
    IF c >= 0 /\ c < SetLen THEN {AllFalse(p)} ELSE [NodeIdx(p) -> BOOLEAN]

----------------------------------------------------------------------------
(* The iterator: cre_iter, struct cre_iter_path *)

\* Ms of a slot that is not anchored, Me of a path with no match yet
NoPos == -1

\* a slot as the growth loop of cre_iter_feedc leaves it: simulator
\* initialised, Ms and Me not yet written (they are written before any read).
\* `spawn` is not a field of the struct: it notes, from the moment a path
\* is anchored in the slot until its simulator is first fed, which branch
\* anchored it.
NewSlot(p) ==
    [sim |-> cre_sim_init(p), Ms |-> NoPos, Me |-> NoPos, spawn |-> "none"]

\* a reset that clears the buffer length and leaves the paths in place
cre_iter_reset_keeps_paths(it) == [it EXCEPT !.buf_len = 0]

\* cre_iter_reset: lengths to 0, nothing freed
cre_iter_reset(it) == [it EXCEPT !.paths_len = 0, !.buf_len = 0]

\* an init that already anchors a first path at offset 0
cre_iter_init_anchors_first ==
    [paths_len |-> 1, paths_cap |-> 4,
     paths |-> [k \in 1..4 |->
                  IF k = 1 THEN [NewSlot(pat) EXCEPT !.Ms = 0,
                                                     !.spawn = "append"]
                  ELSE NewSlot(pat)],
     buf_len |-> 0, buf_cap |-> 0, buf |-> <<>>, st |-> "ok"]

\* cre_iter_init: no paths, no buffer, then reset. `buf` is the retained
\* bytes buf[0..buf_len-1]; no function of the source stores into it.
cre_iter_init ==
    cre_iter_reset([paths_len |-> 0, paths_cap |-> 0, paths |-> <<>>,
                    buf_len |-> 0, buf_cap |-> 0, buf |-> <<>>, st |-> "ok"])

\* slot k of iter->paths (the C index k is position k + 1 of the sequence)
Slot(it, k) == it.paths[k + 1]
SetSlot(it, k, path) == [it EXCEPT !.paths[k + 1] = path]

\* a live path: a slot below paths_len that is anchored
Live(it, k) == k >= 0 /\ k < it.paths_len /\ Slot(it, k).Ms >= 0

\* the growth of the path array (l.425-435): capacity paths_len * 2 + 4,
\* every new slot given an initialised simulator
GrowPaths(p, it) ==
    LET cap == it.paths_len * 2 + 4
    IN  [it EXCEPT !.paths_cap = cap,
                   !.paths = [k \in 1..cap |->
                                IF k <= it.paths_len THEN it.paths[k]
                                ELSE NewSlot(p)]]

\* l.437-439: anchor the slot at index paths_len and count it
AppendPath(it) ==
    LET k == it.paths_len
    IN  [SetSlot(it, k, [Slot(it, k) EXCEPT !.Ms = it.buf_len, !.Me = NoPos,
                                            !.spawn = "append"])
            EXCEPT !.paths_len = k + 1]

\* l.442-470 for the path `k` that the pointer p designates, with the loop
\* variable at `i`. `acc` carries the iterator, the completed matches and
\* what the call did to each path it fed (obs).
FeedPath(p, acc, c, garbage, k, i) ==
    LET it == acc.it
        path == Slot(it, k)
    IN  IF path.Ms < 0 THEN acc
        ELSE
        LET r == cre_sim_feedc(p, path.sim, c, garbage)
            fed == [path EXCEPT !.sim = r.sim,
                                !.Me = IF r.res THEN it.buf_len ELSE @,
                                !.spawn = "none"]
            has_instate == Active(r.sim) # {}
            it1 == SetSlot(it, k, fed)
            it2 == IF has_instate \/ fed.Me >= 0
                   THEN it1     \* l.458: "add it to the queue" has no code
                   ELSE IF i = it1.paths_len - 1
                        THEN [it1 EXCEPT !.paths_len = @ - 1]
                        ELSE SetSlot(it1, k, [fed EXCEPT !.Ms = NoPos])
        IN  IF r.sim.st # "ok"
            THEN [acc EXCEPT !.it = [it1 EXCEPT !.st = r.sim.st]]
            ELSE [acc EXCEPT
                    !.it = it2,
                    !.obs = @ \cup {[slot |-> k, Ms |-> path.Ms,
                                     pre |-> Active(path.sim),
                                     res |-> r.res, Me0 |-> path.Me,
                                     spawn |-> path.spawn,
                                     Me |-> fed.Me,
                                     dead |-> ~has_instate]}]

\* one iteration of the loop of cre_iter_feedc (l.415-470) at loop index
\* st.i. `moved` says whether a realloc of the path array gives a new
\* block: then p and s still point into the block just released.
IterStep(p, st, c, garbage, moved) ==
    LET it == st.acc.it
        i == st.i
        \* l.417-421: reuse the free slot
        reuse == ~st.has_newpath /\ Slot(it, i).Ms < 0
        \* l.422-441: append a path
        append == ~reuse /\ ~st.has_newpath /\ i = it.paths_len - 1
        grow == append /\ it.paths_len >= it.paths_cap
        it1 == IF reuse
               THEN SetSlot(it, i, [Slot(it, i) EXCEPT
                                       !.Ms = it.buf_len, !.Me = NoPos,
                                       !.spawn = "reuse"])
               ELSE IF append
               THEN AppendPath(IF grow THEN GrowPaths(p, it) ELSE it)
               ELSE it
        \* the growth loop (l.429) uses the same i and leaves it at paths_cap
        iv == IF grow THEN it1.paths_cap ELSE i
        hn == st.has_newpath \/ reuse \/ append
        \* the paths this call has anchored so far
        sp == st.acc.spawned + (IF reuse \/ append THEN 1 ELSE 0)
    IN  IF grow /\ moved
        THEN [acc |-> [st.acc EXCEPT !.it = [it1 EXCEPT !.st = "dangling"],
                                     !.spawned = sp],
              i |-> iv + 1, has_newpath |-> hn]
        ELSE [acc |-> FeedPath(p, [st.acc EXCEPT !.it = it1, !.spawned = sp],
                               c, garbage, i, iv),
              i |-> iv + 1, has_newpath |-> hn]

\* the loop of cre_iter_feedc (l.414-471)
RECURSIVE iter_loop(_, _, _, _, _)
iter_loop(p, st, c, garbage, moved) ==
    IF st.i >= st.acc.it.paths_len \/ st.acc.it.st # "ok" THEN st.acc
    ELSE iter_loop(p, IterStep(p, st, c, garbage, moved), c, garbage, moved)

\* cre_iter_feedc: the iterator, the matches and the observations after the
\* call. The function has no return statement: see IterFeedc.
cre_iter_feedc(p, it, ms, c, garbage, moved) ==
    iter_loop(p, [acc |-> [it |-> it, matches |-> ms, obs |-> {},
                           spawned |-> 0],
                  i |-> 0, has_newpath |-> FALSE],
              c, garbage, moved)

----------------------------------------------------------------------------
(* State machine *)

\* scall and icall describe the last call made on the simulator and on the
\* iterator: its arguments, what it returned, what it read; `fed` and `ress`
\* are the bytes fed since the simulator was last reset and the values the
\* feeds returned.

Init ==
    /\ char_signed \in BOOLEAN
    /\ pat \in Patterns
    /\ sim = cre_sim_init(pat)
    /\ scall = [op |-> "init", n |-> 0, fed |-> <<>>, ress |-> <<>>]
    /\ iter = cre_iter_init
    /\ stream = <<>>
    /\ matches = {}
    /\ icall = [op |-> "init", n |-> 0]
    /\ sim2 = cre_sim_init(pat)
    /\ scall2 = [op |-> "init", n |-> 0, fed |-> <<>>, ress |-> <<>>]
    /\ pcall = [op |-> "none"]

SimReset ==
    /\ sim.st = "ok"
    /\ sim' = cre_sim_reset(pat, sim)
    /\ scall' = [op |-> "reset", n |-> 0, fed |-> <<>>, ress |-> <<>>,
                 prior |-> scall.n]
    /\ UNCHANGED <<char_signed, pat, iter, stream, matches, icall,
                   sim2, scall2, pcall>>

SimFeedc ==
    /\ sim.st = "ok"
    /\ scall.n < MaxLen
    /\ \E b \in Bytes :
       \E garbage \in GarbageChoices(pat, ToChar(char_signed, b)) :
         LET r == cre_sim_feedc(pat, sim, ToChar(char_signed, b), garbage)
         IN  /\ sim' = r.sim
             /\ scall' = [op |-> "feedc", n |-> scall.n + 1, b |-> b,
                          fed |-> Append(scall.fed, b),
                          ress |-> Append(scall.ress, r.res),
                          res |-> r.res, pre |-> Active(sim),
                          prein |-> sim.in, prelastin |-> sim.lastin]
    /\ UNCHANGED <<char_signed, pat, iter, stream, matches, icall,
                   sim2, scall2, pcall>>

Next == SimReset \/ SimFeedc

\* the simulator API on its own
Spec == Init /\ [][Next]_vars

IterReset ==
    /\ iter.st = "ok"
    /\ iter' = cre_iter_reset(iter)
    /\ stream' = <<>>
    /\ icall' = [op |-> "reset", n |-> 0, prior |-> Len(stream)]
    /\ UNCHANGED <<char_signed, pat, sim, scall, matches, sim2, scall2, pcall>>

\* a call of cre_iter_feedc. Control reaches the closing brace of a function
\* declared to return bool, so a caller that uses the value gets any value.
IterFeedc ==
    /\ iter.st = "ok"
    /\ Len(stream) < MaxLen
    /\ \E b \in Bytes, moved \in BOOLEAN, ret \in BOOLEAN :
       \E garbage \in GarbageChoices(pat, ToChar(char_signed, b)) :
         LET r == cre_iter_feedc(pat, iter, matches,
                                 ToChar(char_signed, b), garbage, moved)
         IN  /\ iter' = r.it
             /\ matches' = r.matches
             /\ stream' = Append(stream, b)
             /\ icall' = [op |-> "feedc", n |-> Len(stream) + 1, b |-> b,
                          ret |-> ret, obs |-> r.obs, spawned |-> r.spawned,
                          new |-> r.matches \ matches]
    /\ UNCHANGED <<char_signed, pat, sim, scall, sim2, scall2, pcall>>

IterNext == IterReset \/ IterFeedc

\* the iterator API from cre_iter_init
IterSpec == Init /\ [][IterNext]_vars

\* From cre_iter_init the loop of cre_iter_feedc is never entered (paths_len
\* is 0 and only the loop changes it), so no call ever reaches its body.
\* The body is examined from the state that the append block (l.425-439)
\* gives when applied to the iterator of cre_iter_init: one path, anchored
\* at offset 0, its simulator initialised and not yet fed.
PathInit ==
    /\ char_signed \in BOOLEAN
    /\ pat \in Patterns
    /\ sim = cre_sim_init(pat)
    /\ scall = [op |-> "init", n |-> 0, fed |-> <<>>, ress |-> <<>>]
    /\ iter = AppendPath(GrowPaths(pat, cre_iter_init))
    /\ stream = <<>>
    /\ matches = {}
    /\ icall = [op |-> "init", n |-> 0]
    /\ sim2 = cre_sim_init(pat)
    /\ scall2 = [op |-> "init", n |-> 0, fed |-> <<>>, ress |-> <<>>]
    /\ pcall = [op |-> "none"]

PathSpec == PathInit /\ [][IterNext]_vars

\* two simulators on one pattern, their calls interleaved
PairFeedc ==
    /\ sim.st = "ok" /\ sim2.st = "ok"
    /\ scall.n + scall2.n < MaxLen
    /\ \E k \in {1, 2}, b \in Bytes :
       \E garbage \in GarbageChoices(pat, ToChar(char_signed, b)) :
         LET ss   == <<sim, sim2>>
             cs   == <<scall, scall2>>
             r    == cre_sim_feedc_at(pat, ss, k, ToChar(char_signed, b),
                                      garbage)
             call == [op |-> "feedc", n |-> cs[k].n + 1, b |-> b,
                      fed |-> Append(cs[k].fed, b),
                      ress |-> Append(cs[k].ress, r.res),
                      res |-> r.res, pre |-> Active(ss[k]),
                      prein |-> ss[k].in, prelastin |-> ss[k].lastin]
         IN  /\ sim' = r.sims[1]
             /\ sim2' = r.sims[2]
             /\ scall' = IF k = 1 THEN call ELSE scall
             /\ scall2' = IF k = 2 THEN call ELSE scall2
    /\ UNCHANGED <<char_signed, pat, iter, stream, matches, icall, pcall>>

PairSpec == Init /\ [][PairFeedc]_vars

\* the bytes of "abc123"
Text == <<97, 98, 99, 49, 50, 51>>

\* a call of cre_iter_feedc that feeds the next byte of Text
TextFeedc ==
    /\ iter.st = "ok"
    /\ Len(stream) < Len(Text)
    /\ stream = SubSeq(Text, 1, Len(stream))
    /\ \E moved \in BOOLEAN, ret \in BOOLEAN :
       \E garbage \in GarbageChoices(pat, ToChar(char_signed,
                                                 Text[Len(stream) + 1])) :
         LET b == Text[Len(stream) + 1]
             r == cre_iter_feedc(pat, iter, matches,
                                 ToChar(char_signed, b), garbage, moved)
         IN  /\ iter' = r.it
             /\ matches' = r.matches
             /\ stream' = Append(stream, b)
             /\ icall' = [op |-> "feedc", n |-> Len(stream) + 1, b |-> b,
                          ret |-> ret, obs |-> r.obs, spawned |-> r.spawned,
                          new |-> r.matches \ matches]
    /\ UNCHANGED <<char_signed, pat, sim, scall, sim2, scall2, pcall>>

TextNext == IterReset \/ TextFeedc

\* the iterator from cre_iter_init, fed "abc123" byte by byte
TextSpec == Init /\ [][TextNext]_vars

\* a call of cre_pat_init on a pattern object of its own
PatInit ==
    /\ \E src \in Sources : \E parsed \in cre_parse_(src) :
         pcall' = cre_pat_init(src, parsed) @@ [op |-> "pat_init"]
    /\ UNCHANGED <<char_signed, pat, sim, scall, iter, stream, matches, icall,
                   sim2, scall2>>

PatSpec == Init /\ [][PatInit]_vars

----------------------------------------------------------------------------
(* Reference semantics of a pattern, independent of the simulator's code:  *)
(* reachability over edges with a visited set.                             *)

\* every edge value reachable from the edge values `frontier` through
\* Epsilon nodes only
RECURSIVE RefReach(_, _, _)
RefReach(p, frontier, seen) ==
    IF frontier = {} THEN seen
    ELSE LET eps == {i \in frontier \cap NodeIdx(p) : p.nfa[i].kind = cre_EPS}
             nxt == {p.nfa[i].u : i \in eps} \cup {p.nfa[i].v : i \in eps}
         IN  RefReach(p, nxt \ (seen \cup frontier), seen \cup frontier)

\* the ByteMatch nodes in the epsilon-closure of the edges E
RefClosure(p, E) ==
    {i \in RefReach(p, E, {}) \cap NodeIdx(p) : p.nfa[i].kind = cre_SET}

\* whether the Accept marker is in the epsilon-closure of the edges E
RefAccepts(p, E) == Accept \in RefReach(p, E, {})

\* the outgoing edges of the nodes of A whose set contains byte b
RefEdges(p, A, b) ==
    LET hit == {i \in A \cap NodeIdx(p) :
                  p.nfa[i].kind = cre_SET /\ b \in p.nfa[i].set}
    IN  {p.nfa[i].u : i \in hit} \cup {p.nfa[i].v : i \in hit}

\* the active set of a reference run anchored at offset s of S (0-based)
\* after the bytes S[s+1..k] (1-based, as Sequences indexes them)
RECURSIVE RefActive(_, _, _, _)
RefActive(p, S, s, k) ==
    IF k <= s THEN RefClosure(p, {p.nfa_start})
    ELSE RefClosure(p, RefEdges(p, RefActive(p, S, s, k - 1), S[k]))

\* the end offsets at which the reference run anchored at s accepts
RefEnds(p, S, s) ==
    {k \in (s + 1)..Len(S) :
        RefAccepts(p, RefEdges(p, RefActive(p, S, s, k - 1), S[k]))}

Max(A) == CHOOSE x \in A : \A y \in A : y <= x

\* the longest match of every start offset of S that has one
OracleMatches(p, S) ==
    {[start |-> s, end |-> Max(RefEnds(p, S, s))] :
        s \in {t \in 0..(Len(S) - 1) : RefEnds(p, S, t) # {}}}

\* those of them whose run has died within S, so that nothing fed after S
\* can extend them
OracleFinal(p, S) ==
    {m \in OracleMatches(p, S) :
        \E k \in (m.start + 1)..Len(S) : RefActive(p, S, m.start, k) = {}}

----------------------------------------------------------------------------
(* The claims *)

\* C1: oracle equivalence. The matches the iterator has produced for the
\* bytes fed from a fresh iterator are those of a reference simulator run
\* anchored at every offset, longest end per start: none that the oracle
\* does not find, and every one of the oracle's whose run is over.
C1_OracleEquivalence ==
    /\ matches \subseteq OracleMatches(pat, stream)
    /\ OracleFinal(pat, stream) \subseteq matches

\* C2: every offset is tried as a match start. A call of cre_iter_feedc for
\* the byte at position pos has fed that byte to a path anchored at
\* Ms = pos, the first byte of a fresh or reset iterator included.
C2_EveryOffsetAnchored ==
    icall.op = "feedc" => \E o \in icall.obs : o.Ms = icall.n - 1

\* C3: cre_sim_feedc(c) returns true iff Accept is reached in that step:
\* iff a node active before the call is a ByteMatch node whose set contains
\* c and Accept is reachable from one of its edges through Epsilon nodes.
C3_FeedcReturnsAcceptReached ==
    (scall.op = "feedc" /\ sim.st = "ok")
        => scall.res = RefAccepts(pat, RefEdges(pat, scall.pre, scall.b))

\* C4: active-set invariant. After cre_sim_init, cre_sim_reset and every
\* cre_sim_feedc no Epsilon node is marked in `in`, whatever the pattern's
\* start node is.
C4_NoEpsilonActive ==
    \A i \in Active(sim) : pat.nfa[i].kind = cre_SET

\* C5: after cre_sim_reset (and so after cre_sim_init) the active set is
\* exactly the epsilon-closure of the start index: the ByteMatch nodes
\* reachable from nfa_start without consuming a byte.
C5_ResetIsStartClosure ==
    scall.op \in {"init", "reset"}
        => Active(sim) = RefClosure(pat, {pat.nfa_start})

\* C6: closure termination. Every cre_sim_reset and cre_sim_feedc returns,
\* also on patterns whose Epsilon nodes form a cycle: the recursion of
\* cre_sim_add_ never runs forever.
C6_ClosureTerminates ==
    sim.st # "overflow"

\* C7: after cre_sim_feedc(c) the active set is exactly the epsilon-closure
\* of the edges of the previously active nodes whose set contains c, the
\* previous set being replaced, and `in` and `lastin` have exchanged the
\* two arrays.
C7_FeedcReplacesActiveSet ==
    (scall.op = "feedc" /\ sim.st = "ok")
        => /\ Active(sim) = RefClosure(pat, RefEdges(pat, scall.pre, scall.b))
           /\ sim.in = scall.prelastin
           /\ sim.lastin = scall.prein
           /\ {sim.in, sim.lastin} = {BufA, BufB}

\* C8: match emission. A call of cre_iter_feedc that leaves a path dead
\* whose Me is set produces the match {Ms, Me} where the caller can
\* retrieve it, and the call returns true iff it produced a match.
C8_DeadPathEmitsMatch ==
    icall.op = "feedc"
        => /\ \A o \in icall.obs :
                (o.dead /\ o.Me >= 0)
                    => [start |-> o.Ms, end |-> o.Me] \in icall.new
           /\ icall.ret = (icall.new # {})

MinLiveMs(it) ==
    LET live == {Slot(it, k).Ms : k \in {j \in 0..(it.paths_len - 1) : Live(it, j)}}
    IN  CHOOSE m \in live : \A x \in live : m <= x

LookLen == 2

\* the byte sequences fed after a reset
LookSeqs == UNION {[1..n -> Bytes] : n \in 0..LookLen}

\* what a caller can see of an iterator after a call: the matches it
\* produced, and the anchor, match end and active set of every live path
IterView(it, new) ==
    [st |-> it.st, new |-> new,
     paths |-> {[slot |-> k, Ms |-> Slot(it, k).Ms, Me |-> Slot(it, k).Me,
                 in |-> Active(Slot(it, k).sim)] :
                   k \in {j \in 0..(it.paths_len - 1) : Live(it, j)}}]

\* every sequence of views that feeding the bytes S to the iterator can give
RECURSIVE IterRun(_, _, _, _)
IterRun(p, it, signed, S) ==
    IF S = <<>> \/ it.st # "ok" THEN {<<>>}
    ELSE UNION {
           LET r == cre_iter_feedc(p, it, {}, ToChar(signed, Head(S)),
                                   g, moved)
           IN  {<<IterView(r.it, r.matches)>> \o t :
                  t \in IterRun(p, r.it, signed, Tail(S))} :
           g \in GarbageChoices(p, ToChar(signed, Head(S))),
           moved \in BOOLEAN }

SimView(s) ==
    [in |-> Active(s), lastin |-> s.mem[s.lastin], st |-> s.st, oob |-> s.oob]

\* every sequence of (returned value, view) that feeding the bytes S to the
\* simulator can give
RECURSIVE SimRun(_, _, _, _)
SimRun(p, s, signed, S) ==
    IF S = <<>> \/ s.st # "ok" THEN {<<>>}
    ELSE UNION {
           LET r == cre_sim_feedc(p, s, ToChar(signed, Head(S)), g)
           IN  {<<[res |-> r.res, view |-> SimView(r.sim)]>> \o t :
                  t \in SimRun(p, r.sim, signed, Tail(S))} :
           g \in GarbageChoices(p, ToChar(signed, Head(S))) }

\* C14: simulator reset is equivalent to fresh construction. After
\* cre_sim_reset, whatever was fed before, the simulator shows what a
\* simulator just made by cre_sim_init shows, and every later feed sequence
\* gives the same returned values and active sets.
C14_SimResetAsFresh ==
    scall.op = "reset"
        => /\ SimView(sim) = SimView(cre_sim_init(pat))
           /\ \A S \in LookSeqs :
                SimRun(pat, sim, char_signed, S)
                    = SimRun(pat, cre_sim_init(pat), char_signed, S)

\* a reset after an odd number of feeds: the arrays have changed roles
C14_ResetAfterFeeds ==
    /\ scall.op = "reset"
    /\ scall.prior >= 1
    /\ sim.in = BufB

\* simulator `s`, fed `call.fed` since its last reset with the feeds
\* returning `call.ress`, is in a state and has given results that a
\* simulator made by cre_sim_init and fed the same bytes alone can give
AsRunAlone(s, call) ==
    \E t \in SimRun(pat, cre_sim_init(pat), char_signed, call.fed) :
       /\ Len(t) = Len(call.ress)
       /\ \A j \in 1..Len(t) : t[j].res = call.ress[j]
       /\ \/ t = <<>> /\ SimView(s) = SimView(cre_sim_init(pat))
          \/ t # <<>> /\ t[Len(t)].view = SimView(s)

C16_CompileReportsErrors ==
    pcall.op = "pat_init"
        => /\ FaultOffset(pcall.src) >= 0
                => /\ pcall.err # NULL
                   /\ pcall.err.offset = FaultOffset(pcall.src)
                   /\ pcall.nfa_len = 0
           /\ pcall.err = NULL
                => /\ FaultOffset(pcall.src) < 0
                   /\ pcall.nfa_start \in {Accept} \cup 0..(pcall.nfa_len - 1)

\* C17: every byte is consumable. Whatever byte is fed, each lookup
\* n->set[c] a feed makes on an active SET node uses an index inside the
\* 256-entry array.
C17_SetIndexInRange ==
    (scall.op = "feedc"
        /\ \E i \in scall.pre : pat.nfa[i].kind = cre_SET)
        => ToChar(char_signed, scall.b) \in 0..(SetLen - 1)

\* C18: the dead state is absorbing. A feed made on an empty active set
\* returns false and leaves the active set empty.
C18_DeadStaysDead ==
    (scall.op = "feedc" /\ scall.pre = {})
        => /\ ~scall.res
           /\ Active(sim) = {}

\* a feed on a simulator that an earlier feed left with nothing active
C18_FedWhileDead ==
    /\ scall.op = "feedc"
    /\ scall.n >= 2
    /\ scall.pre = {}
    /\ pat.nfa_start \in NodeIdx(pat)

\* the pattern of the literal bytes lits: node i matches lits[i] and leads to
\* node i + 1, the last one to Accept
LiteralChain(lits) ==
    Pat([i \in 1..Len(lits) |->
           Set({lits[i]}, IF i = Len(lits) THEN Accept ELSE i, NoEdge)], 0)

LiteralSeqs == {<<97>>, <<97, 98>>, <<97, 98, 99>>}

\* C19: literal-chain matching. A simulator on the concatenation of k
\* literals, fed those k bytes from its initial state, returns false for
\* each of the first k - 1 and true for the k-th.
C19_LiteralChain ==
    \A lits \in LiteralSeqs :
       (pat = LiteralChain(lits) /\ scall.op = "feedc"
            /\ scall.n <= Len(lits)
            /\ scall.fed = SubSeq(lits, 1, scall.n))
          => scall.ress = [j \in 1..scall.n |-> j = Len(lits)]

\* "abc" fed 'a', 'b', 'c'
C19_AbcFed ==
    /\ pat = PatABC
    /\ scall.op = "feedc"
    /\ scall.fed = <<97, 98, 99>>
    /\ scall.res

\* C20: empty-match policy. For a pattern that accepts the empty string the
\* iterator reports a match anchored at every offset fed, and the zero-length
\* match {p, p} at an offset p whose byte cannot extend the match.
C20_EmptyMatchesReported ==
    (icall.op = "feedc" /\ iter.st = "ok"
        /\ RefAccepts(pat, {pat.nfa_start}))
        => \A p \in 0..(Len(stream) - 1) :
             /\ \E m \in matches : m.start = p
             /\ RefEdges(pat, RefClosure(pat, {pat.nfa_start}), stream[p + 1]) = {}
                    => [start |-> p, end |-> p] \in matches

\* C21: capture spans. Every match the iterator has produced carries the
\* spans of its groups, and "(a)(b)", which the two node kinds of the
\* source can only hold as the chain a, b, fed "ab" gives the match {0,2}
\* with groups [(0,1),(1,2)].
C21_CaptureSpans ==
    /\ \A m \in matches : "groups" \in DOMAIN m
    /\ (pat = PatAB /\ icall.op = "feedc" /\ stream = <<97, 98>>)
          => \E m \in matches :
               /\ m.start = 0 /\ m.end = 2
               /\ m.groups = <<[start |-> 0, end |-> 1],
                               [start |-> 1, end |-> 2]>>

\* C22: "[a-z]+" fed "abc123" through a fresh iterator gives exactly one
\* match, start 0 and end 3.
C22_OneMatchAbc ==
    (pat = PatAZPlus /\ icall.op = "feedc" /\ stream = Text)
        => matches = {[start |-> 0, end |-> 3]}

C25_IndexSafety ==
    /\ sim.st # "abort"
    /\ ~sim.oob

====
